---------------------------- MODULE Spec2Model ----------------------------
(***************************************************************************)
(* A model of converter.py: the run-tag reconciler (DocxPar.get_string and *)
(* DocxPar.add_tags), the paragraph wrapper and document assembler         *)
(* (Document.get_modified_text) and the layout formatter (Format).         *)
(*                                                                         *)
(* A Python str is modelled as a sequence of tokens, + as \o and '' as     *)
(* << >>.  Every inline tag is one token, every character of a run's text  *)
(* is one token.  None is modelled as the empty option << >> for objects   *)
(* (a run is passed as <<run>>) and as the string "None" for the           *)
(* tri-state flags of a run.                                               *)
(***************************************************************************)
EXTENDS Integers, Sequences, FiniteSets, TLC

VARIABLES
    pc,          \* position of the driver
    runs,        \* self.paragraph.runs of the DocxPar being reconciled
    tags,        \* the values add_tags returned, one per call, in call order
    string,      \* the value DocxPar.get_string returned
    section,     \* config['DEFAULT']
    tag,         \* the tag get_margins was called for
    margins,     \* the value Format.get_margins returned
    format,      \* Document.format (a Format object)
    paragraphs,  \* Document.paragraphs
    strings,     \* the value of par.get_string() of each paragraph, in loop order
    result       \* the value Document.get_modified_text returned

vars == <<pc, runs, tags, string, section, tag, margins, format, paragraphs,
          strings, result>>

parVars == <<runs, tags, string>>
fmtVars == <<section, tag, margins>>
docVars == <<format, paragraphs, strings, result>>

-----------------------------------------------------------------------------
(* Bounds of the model. *)

MaxRuns == 2
MaxPars == 2
MaxMargin == 2

-----------------------------------------------------------------------------
(* Runs: python-docx Run objects, read through .text, .bold, .italic and   *)
(* .underline.  Each flag is True, False or None.                          *)

None == << >>

FlagVals == {"True", "False", "None"}

Texts == {<< >>, <<"x">>}

Runs == [text : Texts, bold : FlagVals, italic : FlagVals, underline : FlagVals]

\* Truthy with None taken for true (`is not False` for truthiness).
Truthy_NotFalse(f) == f # "False"

\* Python truthiness of a flag: `if cur.bold`, `not prev.bold`.
Truthy(f) == f = "True"

RECURSIVE SeqsUpTo(_, _)
SeqsUpTo(S, n) ==
    IF n = 0 THEN {<< >>}
    ELSE LET shorter == SeqsUpTo(S, n - 1)
         IN  shorter \cup {Append(s, e) : s \in {t \in shorter : Len(t) = n - 1}, e \in S}

\* Runs with visible text and flags that are all defined.
PlainRuns == [text : {<<"x">>}, bold : {"True", "False"},
              italic : {"True", "False"}, underline : {"True", "False"}]

\* The paragraphs reconciled: every run sequence up to MaxRuns runs, and
\* every sequence of three plain runs.
RunSeqs == SeqsUpTo(Runs, MaxRuns) \cup {<<a, b, c>> : a \in PlainRuns, b \in PlainRuns, c \in PlainRuns}

-----------------------------------------------------------------------------
(* add_tags with the closing tags in the order of the opening tags.        *)
add_tags_ClosesInOpenOrder(cur, prev) ==
    LET c == cur[1]
        p == prev[1]
        opens ==
            IF cur # None
            THEN (IF Truthy(c.bold) /\ (prev = None \/ ~Truthy(p.bold))
                  THEN <<"<b>">> ELSE << >>)
                 \o (IF Truthy(c.italic) /\ (prev = None \/ ~Truthy(p.italic))
                     THEN <<"<i>">> ELSE << >>)
                 \o (IF Truthy(c.underline) /\ (prev = None \/ ~Truthy(p.underline))
                     THEN <<"<u>">> ELSE << >>)
            ELSE << >>
        closes ==
            IF prev # None
            THEN (IF (cur = None \/ ~Truthy(c.bold)) /\ Truthy(p.bold)
                  THEN <<"</b>">> ELSE << >>)
                 \o (IF (cur = None \/ ~Truthy(c.italic)) /\ Truthy(p.italic)
                     THEN <<"</i>">> ELSE << >>)
                 \o (IF (cur = None \/ ~Truthy(c.underline)) /\ Truthy(p.underline)
                     THEN <<"</u>">> ELSE << >>)
            ELSE << >>
    IN  opens \o closes

(* DocxPar.add_tags(cur, prev=None).  cur and prev are options: None or    *)
(* <<run>>.  A Run object is always truthy, so `if cur` tests for None.     *)

add_tags(cur, prev) ==
    LET c == cur[1]
        p == prev[1]
        opens ==
            IF cur # None
            THEN (IF Truthy(c.bold) /\ (prev = None \/ ~Truthy(p.bold))
                  THEN <<"<b>">> ELSE << >>)
                 \o (IF Truthy(c.italic) /\ (prev = None \/ ~Truthy(p.italic))
                     THEN <<"<i>">> ELSE << >>)
                 \o (IF Truthy(c.underline) /\ (prev = None \/ ~Truthy(p.underline))
                     THEN <<"<u>">> ELSE << >>)
            ELSE << >>
        closes ==
            IF prev # None
            THEN (IF (cur = None \/ ~Truthy(c.underline)) /\ Truthy(p.underline)
                  THEN <<"</u>">> ELSE << >>)
                 \o (IF (cur = None \/ ~Truthy(c.italic)) /\ Truthy(p.italic)
                     THEN <<"</i>">> ELSE << >>)
                 \o (IF (cur = None \/ ~Truthy(c.bold)) /\ Truthy(p.bold)
                     THEN <<"</b>">> ELSE << >>)
            ELSE << >>
    IN  opens \o closes

(* DocxPar.get_string: the tags of each add_tags call, in call order:      *)
(* add_tags(runs[0]), add_tags(cur, prev) for each pair of                 *)
(* zip(runs, runs[1:]), add_tags(None, cur).                               *)
get_string_tags(rs) ==
    IF rs # << >>
    THEN [k \in 1..(Len(rs) + 1) |->
            IF k = 1 THEN add_tags(<<rs[1]>>, None)
            ELSE IF k = Len(rs) + 1 THEN add_tags(None, <<rs[Len(rs)]>>)
            ELSE add_tags(<<rs[k]>>, <<rs[k - 1]>>)]
    ELSE << >>

\* The loop of get_string: string after the first run and the first n pairs.
RECURSIVE get_string_loop(_, _)
get_string_loop(rs, n) ==
    IF n = 0 THEN add_tags(<<rs[1]>>, None) \o rs[1].text
    ELSE get_string_loop(rs, n - 1)
         \o add_tags(<<rs[n + 1]>>, <<rs[n]>>) \o rs[n + 1].text

\* get_string without the closing tags after the last run.
get_string_Unclosed(rs) ==
    IF rs # << >> THEN get_string_loop(rs, Len(rs) - 1) ELSE << >>

get_string(rs) ==
    IF rs # << >>
    THEN get_string_loop(rs, Len(rs) - 1) \o add_tags(None, <<rs[Len(rs)]>>)
    ELSE << >>

-----------------------------------------------------------------------------
(* The reconciler on its own: a paragraph is drawn, get_string is called.   *)

InitPar ==
    /\ pc = "par"
    /\ runs \in RunSeqs
    /\ tags = << >>
    /\ string = << >>
    /\ section = "idle" /\ tag = "idle" /\ margins = << >>
    /\ format = "idle" /\ paragraphs = << >> /\ strings = << >> /\ result = << >>

GetString ==
    /\ pc = "par"
    /\ string' = get_string(runs)
    /\ tags' = get_string_tags(runs)
    /\ pc' = "done"
    /\ UNCHANGED <<runs, fmtVars, docVars>>

NextPar == GetString

SpecPar == InitPar /\ [][NextPar]_vars

-----------------------------------------------------------------------------
(* Format: the settings read from config['DEFAULT'].  A section maps each   *)
(* key to the string the file holds; float() and int() read a decimal       *)
(* numeral, and format() writes a float with its fraction ("2" -> 2.0 ->    *)
(* "2.0") and an int without.                                               *)

Numbers == (0..MaxMargin) \cup {80, 100}

float(str) == CHOOSE n \in Numbers : ToString(n) = str
int(str) == CHOOSE n \in Numbers : ToString(n) = str

FormatFloat(n) == ToString(n) \o ".0"
FormatInt(n) == ToString(n)

Whitespace == {" ", "\n"}

\* str.rstrip(): trailing whitespace removed.
RECURSIVE rstrip(_)
rstrip(str) ==
    IF str # << >> /\ str[Len(str)] \in Whitespace
    THEN rstrip(SubSeq(str, 1, Len(str) - 1))
    ELSE str

\* str.strip(): leading and trailing whitespace removed.
RECURSIVE lstrip(_)
lstrip(str) == IF str # << >> /\ str[1] \in Whitespace THEN lstrip(Tail(str)) ELSE str

strip(str) == lstrip(rstrip(str))

\* any([...]) in the place of all([...]).
all_Any(values) == \E k \in 1..Len(values) : values[k] # 0

\* all([...]) of floats: every one is non-zero.
all(values) == \A k \in 1..Len(values) : values[k] # 0

get_width(sec) ==
    LET width == int(sec["width"])
        units == sec["width-units"]
    IN  IF width # 100 THEN <<"width: ", FormatInt(width), units, ";">> ELSE << >>

get_indent(sec) ==
    LET indent == float(sec["text-indent"])
        units == sec["text-indent-units"]
    IN  IF indent # 0 THEN <<"text-indent: ", FormatFloat(indent), units, ";">> ELSE << >>

get_margins(t, sec) ==
    LET top == float(sec[t \o "-margin-top"])
        right == float(sec[t \o "-margin-right"])
        bottom == float(sec[t \o "-margin-bottom"])
        left == float(sec[t \o "-margin-left"])
        units == sec[t \o "-margin-units"]
    IN  IF ~all(<<top, right, bottom, left>>)
        THEN << >>
        ELSE IF top = right /\ right = bottom /\ bottom = left
        THEN <<"margin: ", FormatFloat(top), units, ";", " ">>
        ELSE IF top # 0 /\ ~all(<<right, bottom, left>>)
        THEN <<"margin-top: ", FormatFloat(top), units, ";", " ">>
        ELSE IF top = bottom /\ right = left
        THEN <<"margin: ", FormatFloat(top), units, " ", FormatFloat(right), units, ";", " ">>
        ELSE IF left # 0 /\ ~all(<<right, top, bottom>>)
        THEN <<"margin-right: ", FormatFloat(left), units, ";", " ">>
        ELSE IF right # 0 /\ ~all(<<left, top, bottom>>)
        THEN <<"margin-left: ", FormatFloat(right), units, ";", " ">>
        ELSE IF bottom # 0 /\ ~all(<<right, left, top>>)
        THEN <<"margin-bottom: ", FormatFloat(bottom), units, ";", " ">>
        ELSE IF top # bottom /\ right = left
        THEN <<"margin: ", FormatFloat(top), units, " ", FormatFloat(right), units, " ",
               FormatFloat(bottom), units, ";", " ">>
        ELSE <<"margin: ", FormatFloat(top), units, " ", FormatFloat(right), units, " ",
               FormatFloat(bottom), units, " ", FormatFloat(left), units, ";", " ">>

\* Format.__init__.  The first two tokens of p_tag are the characters "<"
\* and "p", so that p_tag[:2] is its first two tokens.
FormatInit(sec) ==
    LET ind == get_indent(sec)
        w == get_width(sec)
        p_mar == rstrip(get_margins("p", sec))
        div_mar == get_margins("div", sec)
    IN  [div_tag |-> <<"<", "div", " align='justify'", " style='">> \o div_mar \o ind \o w
                       \o <<"'", ">">>,
         p_tag |-> IF p_mar # << >>
                   THEN <<"<", "p", " style='">> \o p_mar \o <<"'", ">">>
                   ELSE <<"<", "p", ">">>,
         div_end_tag |-> <<"</div>">>,
         p_end_tag |-> <<"</p>">>]

Numerals == {ToString(n) : n \in 0..MaxMargin}

MarginKeys(t) == {t \o "-margin-top", t \o "-margin-right", t \o "-margin-bottom",
                  t \o "-margin-left"}

\* The sections of the formatter's own specification: every combination of
\* the eight margins.
FmtSections ==
    {[k \in MarginKeys("p") \cup MarginKeys("div")
         \cup {"p-margin-units", "div-margin-units", "width", "width-units",
               "text-indent", "text-indent-units"} |->
        CASE k \in MarginKeys("p") -> pm[k]
          [] k \in MarginKeys("div") -> dm[k]
          [] k = "p-margin-units" -> "px"
          [] k = "div-margin-units" -> "em"
          [] k = "width" -> "100"
          [] k = "width-units" -> "%"
          [] k = "text-indent" -> "0"
          [] k = "text-indent-units" -> "em"] :
     pm \in [MarginKeys("p") -> Numerals], dm \in [MarginKeys("div") -> Numerals]}

InitFmt ==
    /\ pc = "fmt"
    /\ section \in FmtSections
    /\ tag = "idle" /\ margins = << >>
    /\ runs = << >> /\ tags = << >> /\ string = << >>
    /\ format = "idle" /\ paragraphs = << >> /\ strings = << >> /\ result = << >>

GetMargins(t) ==
    /\ pc = "fmt"
    /\ margins' = get_margins(t, section)
    /\ tag' = t
    /\ pc' = "done"
    /\ UNCHANGED <<section, parVars, docVars>>

NextFmt == \E t \in {"p", "div"} : GetMargins(t)

SpecFmt == InitFmt /\ [][NextFmt]_vars

-----------------------------------------------------------------------------
(* Paragraphs and documents.                                                *)

\* Par.__init__ and DocxPar.__init__: src is a python-docx paragraph, read
\* through .runs and .alignment; str(alignment) is a token sequence and
\* `'RIGHT' in` a search for the token "RIGHT".
DocxParInit(src) ==
    [kind |-> "docx",
     paragraph |-> src,
     align |-> IF \E k \in 1..Len(src.alignment) : src.alignment[k] = "RIGHT"
               THEN "right" ELSE "justify"]

\* Par.__init__ for a TxtPar: src is a line of the file.
TxtParInit(src) == [kind |-> "txt", paragraph |-> src, align |-> "justify"]

\* par.get_string(), dispatched on the class of the paragraph.
par_get_string(par) ==
    IF par.kind = "docx" THEN get_string(par.paragraph.runs) ELSE strip(par.paragraph)

\* wr_par with the alignment put after the first character of p_tag.
wr_par_SliceOne(fmt, par) ==
    LET str == par_get_string(par)
    IN  IF str # << >>
        THEN IF par.align = "right"
             THEN (SubSeq(fmt.p_tag, 1, 1) \o <<" align='right'">>
                   \o SubSeq(fmt.p_tag, 2, Len(fmt.p_tag)))
                  \o str \o fmt.p_end_tag
             ELSE fmt.p_tag \o str \o fmt.p_end_tag
        ELSE fmt.div_end_tag \o fmt.div_tag

\* wr_par with the two tags of the break marker exchanged.
wr_par_BreakSwapped(fmt, par) ==
    LET str == par_get_string(par)
    IN  IF str # << >>
        THEN IF par.align = "right"
             THEN (SubSeq(fmt.p_tag, 1, 2) \o <<" align='right'">>
                   \o SubSeq(fmt.p_tag, 3, Len(fmt.p_tag)))
                  \o str \o fmt.p_end_tag
             ELSE fmt.p_tag \o str \o fmt.p_end_tag
        ELSE fmt.div_tag \o fmt.div_end_tag

\* The body of the loop of get_modified_text: what is appended for par.
wr_par(fmt, par) ==
    LET str == par_get_string(par)
    IN  IF str # << >>
        THEN IF par.align = "right"
             THEN (SubSeq(fmt.p_tag, 1, 2) \o <<" align='right'">>
                   \o SubSeq(fmt.p_tag, 3, Len(fmt.p_tag)))
                  \o str \o fmt.p_end_tag
             ELSE fmt.p_tag \o str \o fmt.p_end_tag
        ELSE fmt.div_end_tag \o fmt.div_tag

\* The loop of get_modified_text: result after the first n paragraphs.
RECURSIVE get_modified_text_loop(_, _, _)
get_modified_text_loop(fmt, pars, n) ==
    IF n = 0 THEN <<fmt.div_tag>>
    ELSE Append(get_modified_text_loop(fmt, pars, n - 1), wr_par(fmt, pars[n]))

\* get_modified_text looping over paragraphs[1:].
get_modified_text_SkipFirst(fmt, pars) ==
    IF pars = << >> THEN <<fmt.div_tag, fmt.div_end_tag>>
    ELSE Append(get_modified_text_loop(fmt, Tail(pars), Len(pars) - 1), fmt.div_end_tag)

get_modified_text(fmt, pars) ==
    Append(get_modified_text_loop(fmt, pars, Len(pars)), fmt.div_end_tag)

\* The sections documents are converted under: no margins, width 100 and no
\* indent; and margins, a width and an indent that all show in the tags.
DocSection(pm, dm, width, indent) ==
    [k \in MarginKeys("p") \cup MarginKeys("div")
         \cup {"p-margin-units", "div-margin-units", "width", "width-units",
               "text-indent", "text-indent-units"} |->
        CASE k \in MarginKeys("p") -> pm
          [] k = "div-margin-top" -> dm
          [] k = "div-margin-bottom" -> dm
          [] k \in {"div-margin-left", "div-margin-right"} -> "1"
          [] k = "p-margin-units" -> "px"
          [] k = "div-margin-units" -> "em"
          [] k = "width" -> width
          [] k = "width-units" -> "%"
          [] k = "text-indent" -> indent
          [] k = "text-indent-units" -> "em"]

DocSections == {DocSection("0", "0", "100", "0"), DocSection("1", "2", "80", "1")}

\* The runs of the paragraphs of documents.
DocRuns == [text : Texts, bold : {"True", "None"}, italic : {"None"}, underline : {"False"}]

EmptyRuns == {r \in DocRuns : r.text = << >>}

\* The paragraphs of a .docx file: no run, one run, or two runs without text;
\* alignment None, RIGHT or CENTER.
DocxSources ==
    [runs : {<< >>} \cup {<<r>> : r \in DocRuns} \cup {<<r, q>> : r \in EmptyRuns, q \in EmptyRuns},
     alignment : {<<"None">>, <<"RIGHT", " (2)">>, <<"CENTER", " (1)">>}]

\* The lines of a .txt file, as f.readlines() gives them.
TxtLines == {<<"x", "\n">>, <<"\n">>, <<" ", "x", " ", "x", "\n">>}

InitDoc ==
    /\ pc = "new"
    /\ section \in DocSections
    /\ format = "idle" /\ paragraphs = << >> /\ strings = << >> /\ result = << >>
    /\ tag = "idle" /\ margins = << >>
    /\ runs = << >> /\ tags = << >> /\ string = << >>

\* DocxDocument.__init__(fname): Document.__init__, then one DocxPar per
\* paragraph of the file.
DocxDocumentInit ==
    /\ pc = "new"
    /\ \E src \in SeqsUpTo(DocxSources, MaxPars) :
          paragraphs' = [k \in 1..Len(src) |-> DocxParInit(src[k])]
    /\ format' = FormatInit(section)
    /\ pc' = "loaded"
    /\ UNCHANGED <<strings, result, section, tag, margins, parVars>>

\* TxtDocument.__init__(fname): Document.__init__, then one TxtPar per line.
TxtDocumentInit ==
    /\ pc = "new"
    /\ \E src \in SeqsUpTo(TxtLines, MaxPars) :
          paragraphs' = [k \in 1..Len(src) |-> TxtParInit(src[k])]
    /\ format' = FormatInit(section)
    /\ pc' = "loaded"
    /\ UNCHANGED <<strings, result, section, tag, margins, parVars>>

\* Document.get_modified_text().
GetModifiedText ==
    /\ pc = "loaded"
    /\ result' = get_modified_text(format, paragraphs)
    /\ strings' = [k \in 1..Len(paragraphs) |-> par_get_string(paragraphs[k])]
    /\ pc' = "done"
    /\ UNCHANGED <<format, paragraphs, fmtVars, parVars>>

NextDoc == DocxDocumentInit \/ TxtDocumentInit \/ GetModifiedText

SpecDoc == InitDoc /\ [][NextDoc]_vars

-----------------------------------------------------------------------------
(* Reading a reconciled string back.                                        *)

TagKinds == {"b", "i", "u"}

OpenTag(t) == CASE t = "b" -> "<b>" [] t = "i" -> "<i>" [] t = "u" -> "<u>"
CloseTag(t) == CASE t = "b" -> "</b>" [] t = "i" -> "</i>" [] t = "u" -> "</u>"

OpenTags == {OpenTag(t) : t \in TagKinds}
CloseTags == {CloseTag(t) : t \in TagKinds}

IsTag(tok) == tok \in OpenTags \cup CloseTags

Flag(run, t) == CASE t = "b" -> run.bold [] t = "i" -> run.italic [] t = "u" -> run.underline

\* The flags of a run that are true; False and None both count as false.
TrueFlags(run) == {t \in TagKinds : Flag(run, t) = "True"}

\* Number of occurrences of token tok among the first n tokens of s.
Count(s, tok, n) == Cardinality({p \in 1..n : s[p] = tok})

\* Opens minus closes of kind t among the first n tokens of s.
Balance(s, t, n) == Count(s, OpenTag(t), n) - Count(s, CloseTag(t), n)

\* The tags opened and not yet closed before position i of s.
OpenAt(s, i) == {t \in TagKinds : Balance(s, t, i - 1) > 0}

\* The tokens of s that are not tags, in order.
StripTags(s) == SelectSeq(s, LAMBDA tok : ~IsTag(tok))

RECURSIVE ConcatTexts(_)
ConcatTexts(rs) == IF rs = << >> THEN << >> ELSE rs[1].text \o ConcatTexts(Tail(rs))

\* The run whose text holds the j-th text token of the paragraph.
RECURSIVE Owner(_, _, _)
Owner(rs, j, k) == IF j <= Len(rs[k].text) THEN k ELSE Owner(rs, j - Len(rs[k].text), k + 1)

\* The stack scan: the stack of open tags after the first n tokens of s, or
\* <<"bad">> once a closing tag did not match the tag opened last.
RECURSIVE ScanStack(_, _)
ScanStack(s, n) ==
    IF n = 0 THEN << >>
    ELSE LET st == ScanStack(s, n - 1)
             tok == s[n]
         IN  IF st = <<"bad">> THEN st
             ELSE IF tok \in OpenTags THEN Append(st, tok)
             ELSE IF tok \in CloseTags
                  THEN IF st # << >> /\ \E t \in TagKinds : st[Len(st)] = OpenTag(t) /\ tok = CloseTag(t)
                       THEN SubSeq(st, 1, Len(st) - 1)
                       ELSE <<"bad">>
             ELSE st

WellNested(s) == ScanStack(s, Len(s)) = << >>

-----------------------------------------------------------------------------
\* C1: the tag sequence of every reconciled paragraph is correctly nested: each
\* closing tag matches the tag opened last, and no tag is open at the end.
C1_WellNested == pc = "done" => WellNested(string)

\* C2: wherever a character of a run's text is emitted, the tags open at that
\* position are exactly the flags of that run that are true (None is false);
\* the text tokens of the output are the run texts in order.
C2_OpenTagsMatchFlags ==
    pc = "done" =>
        /\ StripTags(string) = ConcatTexts(runs)
        /\ \A i \in 1..Len(string) :
               ~IsTag(string[i]) =>
                   LET j == Cardinality({p \in 1..i : ~IsTag(string[p])})
                   IN  OpenAt(string, i) = TrueFlags(runs[Owner(runs, j, 1)])

C2_Witness ==
    /\ pc = "done"
    /\ Len(runs) = 2
    /\ runs[1].text # << >> /\ runs[2].text # << >>
    /\ runs[1].bold = "True" /\ runs[1].italic = "None" /\ runs[1].underline = "False"
    /\ runs[2].bold = "None" /\ runs[2].italic = "True" /\ runs[2].underline = "True"

\* C9: at every boundary between two consecutive runs, the closing tags
\* add_tags emits come before the opening tags it emits.
C9_ClosesBeforeOpens ==
    pc = "done" =>
        \A k \in 2..Len(runs) :
            \A p, q \in 1..Len(tags[k]) :
                (tags[k][p] \in OpenTags /\ tags[k][q] \in CloseTags) => q < p

\* The number of maximal blocks of consecutive runs whose flag t is true.
Blocks(rs, t) ==
    Cardinality({k \in 1..Len(rs) :
        /\ Flag(rs[k], t) = "True"
        /\ (k = 1 \/ Flag(rs[k - 1], t) # "True")})

\* C10: for each tag kind taken separately, opens minus closes is 0 or 1 after
\* every prefix of the output and 0 at its end, and the number of opening tags
\* (and of closing tags) is the number of maximal blocks of runs with the flag.
C10_PerTagBalance ==
    pc = "done" =>
        \A t \in TagKinds :
            /\ \A n \in 0..Len(string) : Balance(string, t, n) \in {0, 1}
            /\ Balance(string, t, Len(string)) = 0
            /\ Count(string, OpenTag(t), Len(string)) = Blocks(runs, t)
            /\ Count(string, CloseTag(t), Len(string)) = Blocks(runs, t)

C10_Witness ==
    /\ pc = "done"
    /\ Len(runs) = 3
    /\ Blocks(runs, "b") = 2
    /\ Blocks(runs, "i") = 1
    /\ Count(string, "<b>", Len(string)) = 2

\* The opening tags of a set of flags in the order b, i, u and the closing
\* tags in the order u, i, b.
OpensOf(F) == (IF "b" \in F THEN <<"<b>">> ELSE << >>)
              \o (IF "i" \in F THEN <<"<i>">> ELSE << >>)
              \o (IF "u" \in F THEN <<"<u>">> ELSE << >>)
ClosesOf(F) == (IF "u" \in F THEN <<"</u>">> ELSE << >>)
               \o (IF "i" \in F THEN <<"</i>">> ELSE << >>)
               \o (IF "b" \in F THEN <<"</b>">> ELSE << >>)

SameFlags(r, s) == r.bold = s.bold /\ r.italic = s.italic /\ r.underline = s.underline

\* C6: a paragraph of one or more runs that all have the same flags reconciles
\* to the opening tags of the true flags (b, i, u), then all the run texts with
\* no tag between them, then the closing tags (u, i, b).
C6_UniformFlags ==
    (pc = "done" /\ runs # << >> /\ \A k \in 1..Len(runs) : SameFlags(runs[k], runs[1])) =>
        string = OpensOf(TrueFlags(runs[1])) \o ConcatTexts(runs) \o ClosesOf(TrueFlags(runs[1]))

C6_Witness ==
    /\ pc = "done"
    /\ Len(runs) = 3
    /\ \A k \in 1..Len(runs) : SameFlags(runs[k], runs[1])
    /\ TrueFlags(runs[1]) = TagKinds
    /\ string = <<"<b>", "<i>", "<u>", "x", "x", "x", "</u>", "</i>", "</b>">>

-----------------------------------------------------------------------------
\* The margin-collapsing policy for four numbers and a unit.
Policy(top, right, bottom, left, units) ==
    IF top = 0 \/ right = 0 \/ bottom = 0 \/ left = 0
    THEN << >>
    ELSE IF top = right /\ top = bottom /\ top = left
    THEN <<"margin: ", FormatFloat(top), units, ";", " ">>
    ELSE IF top = bottom /\ left = right
    THEN <<"margin: ", FormatFloat(top), units, " ", FormatFloat(right), units, ";", " ">>
    ELSE IF left = right
    THEN <<"margin: ", FormatFloat(top), units, " ", FormatFloat(right), units, " ",
           FormatFloat(bottom), units, ";", " ">>
    ELSE <<"margin: ", FormatFloat(top), units, " ", FormatFloat(right), units, " ",
           FormatFloat(bottom), units, " ", FormatFloat(left), units, ";", " ">>

SingleSide == {"margin-top: ", "margin-right: ", "margin-left: ", "margin-bottom: "}

\* C8: get_margins returns what the margin-collapsing policy gives for the four
\* margins of the tag, and never a single-side directive.
C8_MarginPolicy ==
    (pc = "done" /\ tag \in {"p", "div"}) =>
        /\ margins = Policy(float(section[tag \o "-margin-top"]),
                            float(section[tag \o "-margin-right"]),
                            float(section[tag \o "-margin-bottom"]),
                            float(section[tag \o "-margin-left"]),
                            section[tag \o "-margin-units"])
        /\ \A k \in 1..Len(margins) : margins[k] \notin SingleSide

C8_Witness ==
    /\ pc = "done"
    /\ tag = "p"
    /\ margins = <<"margin: ", "1.0", "px", " ", "2.0", "px", " ", "2.0", "px", ";", " ">>

-----------------------------------------------------------------------------
(* Reading an emitted unit back.                                            *)

\* The index of the first ">" token of a unit: the end of its opening tag.
RECURSIVE FirstGt(_, _)
FirstGt(u, k) == IF k > Len(u) THEN 0 ELSE IF u[k] = ">" THEN k ELSE FirstGt(u, k + 1)

\* The tokens of the opening tag of a unit.
OpeningTag(u) == {u[k] : k \in 1..FirstGt(u, 1)}

AlignAttr(v) == " align='" \o v \o "'"

\* u is a <p ...> ... </p> block around str.
IsPBlock(u, str) ==
    LET g == FirstGt(u, 1)
    IN  /\ g >= 3
        /\ u[1] = "<" /\ u[2] = "p"
        /\ u = SubSeq(u, 1, g) \o str \o <<"</p>">>

\* The break marker: the container-close tag, then the container-open tag.
BreakMarker == <<"</div>">> \o format.div_tag

IsDocx(par) == par.kind = "docx"

C4_EmptyTextIsBreak ==
    pc = "done" =>
        \A k \in 1..Len(paragraphs) :
            (/\ IsDocx(paragraphs[k])
             /\ \A n \in 1..Len(paragraphs[k].paragraph.runs) :
                    paragraphs[k].paragraph.runs[n].text = << >>)
                => result[k + 1] = BreakMarker

\* C5: N paragraphs give N + 2 fragments: the container-open tag, then for
\* each paragraph in order the unit that paragraph alone gives (a <p> block
\* around its string, or the break marker), then the container-close tag.
C5_OrderPreserved ==
    pc = "done" =>
        /\ Len(result) = Len(paragraphs) + 2
        /\ result[1] = format.div_tag
        /\ result[Len(result)] = <<"</div>">>
        /\ \A k \in 1..Len(paragraphs) :
              /\ result[k + 1] = get_modified_text(format, <<paragraphs[k]>>)[2]
              /\ IF strings[k] # << >>
                 THEN IsPBlock(result[k + 1], strings[k])
                 ELSE result[k + 1] = BreakMarker

C5_Witness ==
    /\ pc = "done"
    /\ Len(paragraphs) = 2
    /\ Len(result) = 4
    /\ strings[1] = << >> /\ strings[2] = <<"x">>
    /\ result[2] = BreakMarker
    /\ result[3] = <<"<", "p", ">", "x", "</p>">>

\* C7: a paragraph with zero runs reconciles to the empty string and is emitted
\* as the break marker.
C7_ZeroRuns ==
    pc = "done" =>
        \A k \in 1..Len(paragraphs) :
            (IsDocx(paragraphs[k]) /\ paragraphs[k].paragraph.runs = << >>) =>
                /\ strings[k] = << >>
                /\ result[k + 1] = BreakMarker

C7_Witness ==
    /\ pc = "done"
    /\ Len(paragraphs) = 1
    /\ IsDocx(paragraphs[1])
    /\ paragraphs[1].paragraph.runs = << >>
    /\ result = <<format.div_tag, <<"</div>", "<", "div", " align='justify'", " style='", "'", ">">>,
                  <<"</div>">>>>

=============================================================================
